---- MODULE Spec2Model ----
(***************************************************************************)
(* A model of sequtils: the two coordinate value types SequencePoint and   *)
(* SequenceRange (src/sequtils/_point.py, _range.py) and the contract they *)
(* share (src/sequtils/_base.py).                                          *)
(*                                                                         *)
(* The library is a set of pure operations on immutable values.  The       *)
(* state machine is a caller's session: two operand registers x and y,     *)
(* the keyword arguments kw of the last call, the operation op that was    *)
(* called and its outcome res (a value or a raised exception).  A result   *)
(* can be loaded back into a register (Chain), so that values produced by  *)
(* unvalidated arithmetic become the operands of later calls.              *)
(***************************************************************************)
EXTENDS Integers, Sequences, FiniteSets, TLC

VARIABLES op, x, y, kw, res, depth

vars == <<op, x, y, kw, res, depth>>

-----------------------------------------------------------------------------
(* Bounds of the model.                                                    *)

\* integers offered as positions, indexes and offsets: MinInt..MaxInt
MaxInt == 4
MaxNeg == 2
MinInt == 0 - MaxNeg
\* the longest sequence string offered as seq / full_sequence
MaxSeqLen == 4
\* how many results may be loaded back into a register
MaxChain == 1
\* unvalidated Ranges offered as operands have bounds in 0..MaxBare
MaxBare == 3
\* 2-tuples of indexes offered as operands have items in 0..MaxPair
MaxPair == 2

-----------------------------------------------------------------------------
(* Python values.  Every value is a record tagged with its type in t.      *)

NoneV == [t |-> "None"]
ObjectV == [t |-> "object"]
NotImplemented == [t |-> "NotImplemented"]
IntV(n) == [t |-> "int", v |-> n]
BoolV(b) == [t |-> "bool", b |-> b]
\* str and bytes: the sequence of their characters, each a one-character string
StrV(s) == [t |-> "str", s |-> s]
BytesV(s) == [t |-> "bytes", s |-> s]
TupleV(items) == [t |-> "tuple", items |-> items]
ListV(items) == [t |-> "list", items |-> items]
SliceV(a, b, c) == [t |-> "slice", start |-> a, stop |-> b, step |-> c]

\* a raised exception, as the outcome of a call
Exc(kind) == [t |-> "exc", kind |-> kind]
ValueError == Exc("ValueError")
TypeError == Exc("TypeError")
IndexError == Exc("IndexError")
RecursionError == Exc("RecursionError")

IsExc(v) == v.t = "exc"
IsNone(v) == v.t = "None"
IsInt(v) == v.t = "int"
IsPoint(v) == v.t = "Point"
IsRange(v) == v.t = "Range"
\* isinstance(v, (str, bytes))
IsText(v) == v.t \in {"str", "bytes"}
\* isinstance(v, BaseSequenceLocation): the test `isinstance(v, cls.mro()[1])`
IsLocation(v) == v.t \in {"Point", "Range"}
\* isinstance(v, collections.abc.Sequence)
IsSequence(v) == v.t \in {"str", "bytes", "tuple", "list"}

Digits == <<"0", "1", "2", "3", "4", "5", "6", "7", "8", "9">>
IsDigit(c) == \E i \in 1..10 : Digits[i] = c
DigitVal(c) == (CHOOSE i \in 1..10 : Digits[i] = c) - 1

RECURSIVE DigitsVal(_)
\* the number a non-empty run of decimal digits denotes
DigitsVal(s) ==
    IF Len(s) = 0 THEN 0
    ELSE 10 * DigitsVal(SubSeq(s, 1, Len(s) - 1)) + DigitVal(s[Len(s)])

AllDigits(s) == Len(s) > 0 /\ \A i \in 1..Len(s) : IsDigit(s[i])

\* int(text) for a str or bytes: an optional sign and decimal digits, else ValueError
ParseInt(s) ==
    IF AllDigits(s) THEN IntV(DigitsVal(s))
    ELSE IF Len(s) > 1 /\ s[1] = "-" /\ AllDigits(Tail(s)) THEN IntV(0 - DigitsVal(Tail(s)))
    ELSE IF Len(s) > 1 /\ s[1] = "+" /\ AllDigits(Tail(s)) THEN IntV(DigitsVal(Tail(s)))
    ELSE ValueError

\* the builtin int(v)
PyInt(v) ==
    CASE v.t = "int" -> v
      [] v.t = "bool" -> IntV(IF v.b THEN 1 ELSE 0)
      [] v.t \in {"str", "bytes"} -> ParseInt(v.s)
      [] v.t \in {"None", "object", "tuple", "list", "slice"} -> TypeError

\* operator.add / operator.sub on two machine integers
Apply(operator, a, b) == IF operator = "add" THEN a + b ELSE a - b

-----------------------------------------------------------------------------
(* SequencePoint                                                           *)

\* SequencePoint.validate
Point_validate(self) == IF self.pos < 1 THEN ValueError ELSE NoneV

\* a variant of Point_init that takes the position for the index (the derived
\* coordinates are then no 0-based equivalents): C1 must tell it apart
Point_init_same_index(pos, validate) ==
    LET self == [t |-> "Point", pos |-> pos] IN
    IF validate /\ IsExc(Point_validate(self)) THEN Point_validate(self)
    ELSE [t |-> "Point", pos |-> pos, index |-> pos, slice |-> <<pos, pos + 1>>]

\* SequencePoint.__init__ on a fresh instance, once int(position) is known
Point_init(pos, validate) ==
    LET self == [t |-> "Point", pos |-> pos] IN
    IF validate /\ IsExc(Point_validate(self)) THEN Point_validate(self)
    ELSE [t |-> "Point", pos |-> pos, index |-> pos - 1, slice |-> <<pos - 1, (pos - 1) + 1>>]

\* SequenceRange.index
Range_index(self) == <<self.start.index, self.stop.index>>

\* SequenceRange.length and the builtin len() of a Range (__len__)
Range_length(self) == self.stop.pos - self.start.pos + 1
Range_len(self) == IF Range_length(self) < 0 THEN ValueError ELSE IntV(Range_length(self))

\* the exceptions of a call's argument pass through the call
SequencePoint_of_len(position, n) ==
    IF IsExc(n) THEN n
    ELSE IF n.v = 1 THEN position.start
    ELSE TypeError

SequencePoint_of_int(n, validate) == IF IsExc(n) THEN n ELSE Point_init(n.v, validate)

\* SequencePoint(position, validate=...): __new__ followed by __init__
SequencePoint(position, validate) ==
    IF IsLocation(position) THEN
        IF IsPoint(position) THEN position
        ELSE SequencePoint_of_len(position, Range_len(position))
    ELSE SequencePoint_of_int(PyInt(position), validate)

\* SequencePoint(v, ...) where evaluating the argument v may itself have raised
SequencePoint_arg(v, validate) == IF IsExc(v) THEN v ELSE SequencePoint(v, validate)

\* `v + k` for a v that is no SequencePoint or SequenceRange and an int k: only
\* int + int is defined (None, object, str, bytes, tuple and list raise TypeError)
Builtin_plus(v, k) ==
    CASE v.t = "int" -> IntV(v.v + k)
      [] v.t \in {"None", "object", "str", "bytes", "tuple", "list", "slice"} -> TypeError

\* SequencePoint.from_index
Point_from_index(index, validate) ==
    IF IsLocation(index) THEN ValueError
    ELSE SequencePoint_arg(Builtin_plus(index, 1), validate)

\* SequencePoint._join
\* a variant of Point_join that combines the 1-based positions: C2 must tell it apart
Point_join_pos(self, other, operator) ==
    Point_from_index(IntV(Apply(operator, self.pos, other.pos)), FALSE)

\* SequencePoint._join
Point_join(self, other, operator) ==
    Point_from_index(IntV(Apply(operator, self.index, other.index)), FALSE)

\* BaseSequenceLocation._arithmetic, lines 80-90: a TypeError of the cast becomes
\* NotImplemented, any other exception passes, else self._join(other, operator)
Point_arithmetic_join(self, cast, operator) ==
    IF IsExc(cast) THEN (IF cast.kind = "TypeError" THEN NotImplemented ELSE cast)
    ELSE Point_join(self, cast, operator)

\* BaseSequenceLocation._arithmetic with self a SequencePoint
Point_arithmetic(self, other, operator) ==
    Point_arithmetic_join(self,
        IF IsLocation(other)
        THEN (IF IsPoint(other) THEN other ELSE SequencePoint(other, FALSE))
        ELSE Point_from_index(other, FALSE),
        operator)

-----------------------------------------------------------------------------
(* SequenceRange                                                           *)

Min2(a, b) == IF a < b THEN a ELSE b
Max2(a, b) == IF a < b THEN b ELSE a

\* Python's s[lo:hi] on a sequence s (negative bounds count from the end, all
\* bounds are clamped to the sequence)
PySlice(s, lo, hi) ==
    LET n == Len(s)
        adj(i) == IF i < 0 THEN Max2(i + n, 0) ELSE Min2(i, n)
    IN  IF adj(lo) < adj(hi) THEN SubSeq(s, adj(lo) + 1, adj(hi)) ELSE <<>>

\* bool(v), as in `if seq:`
Truthy(v) ==
    CASE v.t = "None" -> FALSE
      [] v.t \in {"str", "bytes"} -> Len(v.s) > 0
      [] v.t \in {"tuple", "list"} -> Len(v.items) > 0
      [] v.t = "int" -> v.v # 0
      [] v.t = "bool" -> v.b
      [] v.t \in {"object", "Point", "slice"} -> TRUE

HasSeparator(s) == \E i \in 1..Len(s) : s[i] = ":"

RECURSIVE Split(_)
\* str.split(':'): the pieces between the separators
Split(s) ==
    IF ~HasSeparator(s) THEN <<s>>
    ELSE LET i == CHOOSE j \in 1..Len(s) : s[j] = ":" /\ \A k \in 1..(j - 1) : s[k] # ":"
         IN  <<SubSeq(s, 1, i - 1)>> \o Split(SubSeq(s, i + 1, Len(s)))

\* a variant of _valid_range that takes any sequence of length 2, text
\* included, for a pair
Range_valid_range_by_length(positions) ==
    IF ~IsSequence(positions) THEN FALSE
    ELSE IF IsText(positions) THEN HasSeparator(positions.s) \/ Len(positions.s) = 2
    ELSE Len(positions.items) = 2

\* SequenceRange._valid_range
Range_valid_range(positions) ==
    IF ~IsSequence(positions) THEN FALSE
    ELSE IF IsText(positions) THEN HasSeparator(positions.s)
    ELSE Len(positions.items) = 2

\* `start, stop = map(int, parts)`: int() of each part, exactly two of them
Range_unpack_ints(parts) ==
    IF Len(parts) # 2 THEN ValueError
    ELSE IF IsExc(ParseInt(parts[1])) THEN ParseInt(parts[1])
    ELSE IF IsExc(ParseInt(parts[2])) THEN ParseInt(parts[2])
    ELSE [t |-> "pair", start |-> ParseInt(parts[1]), stop |-> ParseInt(parts[2])]

\* SequenceRange._parse_range, with the unpacking `start, stop = ...` of its
\* result: a [start, stop] record, or the exception either of them raises
Range_parse_range(start, stop) ==
    IF ~IsNone(stop) THEN ValueError
    ELSE IF IsText(start) /\ HasSeparator(start.s) THEN Range_unpack_ints(Split(start.s))
    ELSE IF IsText(start) /\ Len(start.s) = 2 THEN
        [t |-> "pair", start |-> StrV(<<start.s[1]>>), stop |-> StrV(<<start.s[2]>>)]
    ELSE IF ~IsText(start) /\ IsSequence(start) /\ Len(start.items) = 2 THEN
        [t |-> "pair", start |-> start.items[1], stop |-> start.items[2]]
    ELSE ValueError

\* a variant of Range.validate that only looks at the start: C6 must tell it apart
Range_validate_start_only(self) ==
    IF self.start.pos < 1 THEN ValueError
    ELSE NoneV

\* SequenceRange.validate
Range_validate(self) ==
    IF self.start.pos < 1 THEN ValueError
    ELSE IF self.stop.pos < self.start.pos THEN ValueError
    ELSE NoneV

\* `if len(seq) != len(self): raise ValueError`, else seq
Range_check_len(seq, n) ==
    IF IsExc(n) THEN n
    ELSE IF Len(seq.s) # n.v THEN ValueError
    ELSE seq

\* SequenceRange._get_seq
Range_get_seq(self, seq, full_sequence) ==
    IF Truthy(seq) THEN Range_check_len(seq, Range_len(self))
    ELSE IF Truthy(full_sequence) THEN
        Range_check_len(StrV(PySlice(full_sequence.s, self.slice[1], self.slice[2])),
                        Range_len(self))
    ELSE seq

RECURSIVE Range_arithmetic(_, _, _)

\* an operator method that declined (NotImplemented) with nobody left to ask
Declined(r) == IF r.t = "NotImplemented" THEN TypeError ELSE r

\* `v + k` / `v - k` for any value v and an int k, as the constructor evaluates
\* `start + start_offset` and `start + length - 1`
PyArithInt(v, k, operator) ==
    CASE IsExc(v) -> v
      [] IsPoint(v) -> Declined(Point_arithmetic(v, IntV(k), operator))
      [] IsRange(v) -> Declined(Range_arithmetic(v, IntV(k), operator))
      [] IsInt(v) -> IntV(Apply(operator, v.v, k))
      [] v.t \in {"None", "object", "str", "bytes", "tuple", "list", "slice"} -> TypeError

\* SequenceRange._stop_from_start_and_length
Range_stop_from_start_and_length(start, length) ==
    SequencePoint_arg(PyArithInt(PyArithInt(start, length, "add"), 1, "sub"), TRUE)

\* a variant of _resolve_none_stop that consults seq before length
Range_resolve_none_stop_seq_first(start, stop, length, seq) ==
    IF ~IsNone(seq) THEN Range_stop_from_start_and_length(start, Len(seq.s))
    ELSE IF ~IsNone(length) THEN Range_stop_from_start_and_length(start, length.v)
    ELSE start

\* SequenceRange._resolve_none_stop
Range_resolve_none_stop(start, stop, length, seq) ==
    IF ~IsNone(length) THEN Range_stop_from_start_and_length(start, length.v)
    ELSE IF ~IsNone(seq) THEN Range_stop_from_start_and_length(start, Len(seq.s))
    ELSE start

\* `start, stop = self._parse_range(start, stop)`
Range_init_parsed(p, seq) ==
    IF IsExc(p) THEN p ELSE [t |-> "args", start |-> p.start, stop |-> p.stop, seq |-> seq]

\* a variant of lines 160-172 in which a copied Range does not hand on its seq
Range_init_args_drop_seq(start, stop, seq, full_sequence) ==
    IF IsLocation(start) THEN
        IF IsRange(start) THEN
            IF ~IsNone(stop) THEN ValueError
            ELSE [t |-> "args", start |-> IntV(start.start.pos), stop |-> IntV(start.stop.pos),
                  seq |-> seq]
        ELSE [t |-> "args", start |-> start, stop |-> stop, seq |-> seq]
    ELSE IF Range_valid_range(start) THEN Range_init_parsed(Range_parse_range(start, stop), seq)
    ELSE [t |-> "args", start |-> start, stop |-> stop, seq |-> seq]

\* SequenceRange.__init__, lines 160-172: start given as a Range, a pair or a
\* colon string is taken apart into start and stop
Range_init_args(start, stop, seq, full_sequence) ==
    IF IsLocation(start) THEN
        IF IsRange(start) THEN
            IF ~IsNone(stop) THEN ValueError
            ELSE [t |-> "args", start |-> IntV(start.start.pos), stop |-> IntV(start.stop.pos),
                  seq |-> IF IsNone(seq) /\ IsNone(full_sequence) THEN start.seq ELSE seq]
        ELSE [t |-> "args", start |-> start, stop |-> stop, seq |-> seq]
    ELSE IF Range_valid_range(start) THEN Range_init_parsed(Range_parse_range(start, stop), seq)
    ELSE [t |-> "args", start |-> start, stop |-> stop, seq |-> seq]

\* a variant of the offsets that treats a slice like an index pair
Range_offsets_as_index(special) == IF special = "none" THEN <<0, 0>> ELSE <<1, 1>>

\* the offsets __init__ adds for _special = 'index' / 'slice'
Range_offsets(special) ==
    CASE special = "index" -> <<1, 1>>
      [] special = "slice" -> <<1, 0>>
      [] special = "none" -> <<0, 0>>

\* SequenceRange.__init__, line 197: self._seq = self._get_seq(seq, full_sequence)
Range_init_seq(self, got) == IF IsExc(got) THEN got ELSE [self EXCEPT !.seq = got]

\* SequenceRange.__init__, lines 193-197
Range_init_validate(self, seq, full_sequence, validate) ==
    IF validate /\ IsExc(Range_validate(self)) THEN Range_validate(self)
    ELSE Range_init_seq(self, Range_get_seq(self, seq, full_sequence))

\* SequenceRange.__init__, lines 191-196
Range_init_stop_point(startP, stopP, seq, full_sequence, validate) ==
    IF IsExc(stopP) THEN stopP
    ELSE Range_init_validate(
            [t |-> "Range", start |-> startP, stop |-> stopP, seq |-> seq,
             slice |-> <<startP.pos - 1, stopP.pos>>],
            seq, full_sequence, validate)

\* SequenceRange.__init__, lines 190-191
Range_init_start_point(startP, stop, seq, full_sequence, validate, special) ==
    IF IsExc(startP) THEN startP
    ELSE Range_init_stop_point(startP,
            SequencePoint_arg(PyArithInt(stop, Range_offsets(special)[2], "add"), validate),
            seq, full_sequence, validate)

\* SequenceRange.__init__, lines 181-197, from the resolved start and stop
Range_init_build(start, stop, seq, full_sequence, validate, special) ==
    IF IsExc(stop) THEN stop
    ELSE Range_init_start_point(
            SequencePoint_arg(PyArithInt(start, Range_offsets(special)[1], "add"), validate),
            stop, seq, full_sequence, validate, special)

\* SequenceRange.__init__, lines 176-179: stop from text, or resolved when None
Range_init_stop(start, args, full_sequence, validate, length, special) ==
    IF IsExc(start) THEN start
    ELSE Range_init_build(start,
            IF IsText(args.stop) THEN PyInt(args.stop)
            ELSE IF IsNone(args.stop)
                 THEN Range_resolve_none_stop(start, args.stop, length, args.seq)
                 ELSE args.stop,
            args.seq, full_sequence, validate, special)

\* SequenceRange.__init__, lines 174-175: start from text
Range_init_start(args, full_sequence, validate, length, special) ==
    IF IsExc(args) THEN args
    ELSE Range_init_stop(IF IsText(args.start) THEN PyInt(args.start) ELSE args.start,
                         args, full_sequence, validate, length, special)

\* SequenceRange(start, stop, seq, full_sequence, validate=..., length=..., _special=...)
SequenceRange(start, stop, seq, full_sequence, validate, length, special) ==
    Range_init_start(Range_init_args(start, stop, seq, full_sequence),
                     full_sequence, validate, length, special)

\* the keyword arguments of a constructor call
\* the default max_length of from_center_and_window, math.inf
InfV == [t |-> "inf"]

\* the keyword arguments of a call
Kw(validate, length, seq, full_sequence) ==
    [validate |-> validate, length |-> length, seq |-> seq, full_sequence |-> full_sequence,
     max_length |-> InfV, compare_seq |-> TRUE, cast |-> TRUE, part |-> "all"]
NoKw == Kw(TRUE, NoneV, NoneV, NoneV)
Unvalidated == Kw(FALSE, NoneV, NoneV, NoneV)

\* SequenceRange.from_index
Range_from_index(start_index, stop_index, kwargs) ==
    IF IsLocation(start_index) THEN ValueError
    ELSE IF IsLocation(stop_index) THEN ValueError
    ELSE SequenceRange(start_index, stop_index, kwargs.seq, kwargs.full_sequence,
                       kwargs.validate, kwargs.length, "index")

\* SequenceRange._join
Range_join(self, other, operator) ==
    SequenceRange(Point_arithmetic(self.start, other.start, operator),
                  Point_arithmetic(self.stop, other.stop, operator),
                  IF other.start.pos = other.stop.pos THEN self.seq ELSE NoneV,
                  NoneV, FALSE, NoneV, "none")

\* BaseSequenceLocation._arithmetic, lines 80-90, with self a SequenceRange
Range_arithmetic_join(self, cast, operator) ==
    IF IsExc(cast) THEN (IF cast.kind = "TypeError" THEN NotImplemented ELSE cast)
    ELSE Range_join(self, cast, operator)

\* BaseSequenceLocation._arithmetic with self a SequenceRange
Range_arithmetic(self, other, operator) ==
    Range_arithmetic_join(self,
        IF IsLocation(other)
        THEN (IF IsRange(other) THEN other
              ELSE SequenceRange(other, NoneV, NoneV, NoneV, FALSE, NoneV, "none"))
        ELSE Range_from_index(other, NoneV, Unvalidated),
        operator)

-----------------------------------------------------------------------------
(* The shared contract: validity and the arithmetic operators              *)

\* validate(), by the class of self
Loc_validate(self) == IF IsPoint(self) THEN Point_validate(self) ELSE Range_validate(self)

\* BaseSequenceLocation.is_valid
Loc_is_valid(self) == BoolV(~IsExc(Loc_validate(self)))

\* BaseSequenceLocation._arithmetic, by the class of self
Loc_arithmetic(self, other, operator) ==
    IF IsPoint(self) THEN Point_arithmetic(self, other, operator)
    ELSE Range_arithmetic(self, other, operator)

\* BaseSequenceLocation.__add__ and __sub__
Loc_add(self, other) == Loc_arithmetic(self, other, "add")
Loc_sub(self, other) == Loc_arithmetic(self, other, "sub")

\* the rest of `self + other` inside __radd__ once self.__add__(other) returned l:
\* when it declined, the interpreter turns to other.__radd__, which for a
\* location evaluates `other + self` again
Loc_radd_rest(self, other, l) ==
    IF l.t # "NotImplemented" THEN l
    ELSE IF IsLocation(other) /\ other.t # self.t THEN RecursionError
    ELSE TypeError

\* BaseSequenceLocation.__radd__: `self + other`
Loc_radd(self, other) == Loc_radd_rest(self, other, Loc_add(self, other))

\* `c - self` for the c that from_index built in __rsub__
Loc_rsub_rest(self, c) == IF IsExc(c) THEN c ELSE Declined(Loc_sub(c, self))

\* BaseSequenceLocation.__rsub__: `from_index(other, validate=False) - self`
Loc_rsub(self, other) ==
    Loc_rsub_rest(self,
        IF IsPoint(self) THEN Point_from_index(other, FALSE)
        ELSE Range_from_index(other, NoneV, Unvalidated))

\* the interpreter's binary operator protocol once a's own method returned l:
\* b's reflected method is asked when a declined, and TypeError ends it
PyAdd_rest(a, b, l) ==
    IF l.t # "NotImplemented" THEN l
    ELSE IF IsLocation(b) /\ b.t # a.t THEN Loc_radd(b, a)
    ELSE TypeError

\* the interpreter's `a + b`: a.__add__(b), then b.__radd__(a), then TypeError.
\* int, str, bytes, tuple, list and None decline a location operand.
PyAdd(a, b) == PyAdd_rest(a, b, IF IsLocation(a) THEN Loc_add(a, b) ELSE NotImplemented)

PySub_rest(a, b, l) ==
    IF l.t # "NotImplemented" THEN l
    ELSE IF IsLocation(b) /\ b.t # a.t THEN Loc_rsub(b, a)
    ELSE TypeError

\* the interpreter's `a - b`
PySub(a, b) == PySub_rest(a, b, IF IsLocation(a) THEN Loc_sub(a, b) ELSE NotImplemented)

-----------------------------------------------------------------------------
(* The alternate constructors of SequenceRange                             *)

\* SequenceRange.from_slice
Range_from_slice(start_slice, stop_slice, kwargs) ==
    IF start_slice.t = "slice" THEN
        IF ~(IsNone(start_slice.step) \/ (IsInt(start_slice.step) /\ start_slice.step.v = 1))
        THEN ValueError
        ELSE SequenceRange(PyArithInt(start_slice.start, 1, "add"), start_slice.stop,
                           kwargs.seq, kwargs.full_sequence, kwargs.validate, kwargs.length,
                           "none")
    ELSE SequenceRange(start_slice, stop_slice, kwargs.seq, kwargs.full_sequence,
                       kwargs.validate, kwargs.length, "slice")

\* the builtin min(max_length, n) of an int n and an int or math.inf
PyMin(max_length, n) ==
    CASE max_length.t = "inf" -> IntV(n)
      [] max_length.t = "int" -> IF n < max_length.v THEN IntV(n) ELSE max_length
      [] max_length.t = "None" -> TypeError

\* SequenceRange.from_center_and_window, for an int center and window
Range_from_center_and_window(center, window, max_length, kwargs) ==
    SequenceRange(IntV(Max2(1, center.v - window.v)),
                  PyMin(max_length, center.v + window.v),
                  kwargs.seq, kwargs.full_sequence, kwargs.validate, kwargs.length, "none")

\* str.find: the index of the leftmost occurrence of sub in s, or -1
PyFind(s, sub) ==
    LET hits == {i \in 0..(Len(s) - Len(sub)) : SubSeq(s, i + 1, i + Len(sub)) = sub} IN
    IF hits = {} THEN 0 - 1 ELSE CHOOSE i \in hits : \A j \in hits : i <= j

\* SequenceRange.from_sequence
Range_from_sequence(full_sequence, sequence) ==
    IF PyFind(full_sequence.s, sequence.s) = 0 - 1 THEN IndexError
    ELSE SequenceRange(IntV(PyFind(full_sequence.s, sequence.s) + 1),
                       IntV(PyFind(full_sequence.s, sequence.s) + Len(sequence.s)),
                       sequence, full_sequence, TRUE, NoneV, "none")

-----------------------------------------------------------------------------
(* The shared contract: comparison                                         *)

\* BaseSequenceLocation._comparison_cast: isinstance(other, (self.__class__, int))
Base_comparison_cast(self, other) == other.t = self.t \/ IsInt(other)

\* isinstance(other[i], int) for the elements of a sequence of length 2: bytes
\* index to ints, str to str, tuples and lists to their items
Elements_are_ints(other) ==
    CASE other.t = "bytes" -> TRUE
      [] other.t = "str" -> FALSE
      [] other.t \in {"tuple", "list"} -> IsInt(other.items[1]) /\ IsInt(other.items[2])

PyLenOf(v) == IF IsText(v) THEN Len(v.s) ELSE Len(v.items)

\* SequenceRange._comparison_cast
Range_comparison_cast(self, other) ==
    IF Base_comparison_cast(self, other) THEN TRUE
    ELSE IF IsSequence(other) THEN PyLenOf(other) = 2 /\ Elements_are_ints(other)
    ELSE FALSE

\* self._comparison_cast(other), by the class of self
Loc_comparison_cast(self, other) ==
    IF IsPoint(self) THEN Base_comparison_cast(self, other)
    ELSE Range_comparison_cast(self, other)

\* self.__class__(other, validate=False)
Loc_cast(self, other) ==
    IF IsPoint(self) THEN SequencePoint(other, FALSE)
    ELSE SequenceRange(other, NoneV, NoneV, NoneV, FALSE, NoneV, "none")

\* SequencePoint.pos, or SequenceRange.pos as the pair (start.pos, stop.pos)
Loc_pos(self) == IF IsPoint(self) THEN <<self.pos>> ELSE <<self.start.pos, self.stop.pos>>

\* the order of two pos values: ints, or 2-tuples compared lexicographically
PosLess(p, q) ==
    IF Len(p) = 1 THEN p[1] < q[1]
    ELSE p[1] < q[1] \/ (p[1] = q[1] /\ p[2] < q[2])

\* `self.pos < cast.pos` for the cast the constructor returned or raised
Loc_lt_cast(self, cast) == IF IsExc(cast) THEN cast ELSE BoolV(PosLess(Loc_pos(self), Loc_pos(cast)))

\* BaseSequenceLocation.__lt__
Loc_lt(self, other) ==
    IF Loc_comparison_cast(self, other) THEN Loc_lt_cast(self, Loc_cast(self, other))
    ELSE NotImplemented

\* `self.pos == cast.pos`, and for a Range `and (not compare_seq or self.seq == other.seq)`
Loc_eq_cast(self, cast, compare_seq) ==
    IF IsExc(cast) THEN cast
    ELSE BoolV(/\ Loc_pos(self) = Loc_pos(cast)
               /\ (IsPoint(self) \/ ~compare_seq \/ self.seq = cast.seq))

\* SequenceRange._eq_helper, and BaseSequenceLocation.__eq__ for a SequencePoint
Loc_eq_helper(self, other, compare_seq) ==
    IF Loc_comparison_cast(self, other) THEN Loc_eq_cast(self, Loc_cast(self, other), compare_seq)
    ELSE NotImplemented

\* __eq__ of either class
Loc_eq(self, other) == Loc_eq_helper(self, other, TRUE)

\* object.__ne__: the negation of __eq__ unless that declined or raised
Negated(r) == IF r.t = "bool" THEN BoolV(~r.b) ELSE r

\* r, or its negation as object.__ne__ derives it
NegatedIf(negate, r) == IF negate THEN Negated(r) ELSE r

\* __eq__ (negate = FALSE) or __ne__ (negate = TRUE) of a location; the builtin
\* types decline a location operand
Loc_eq_ne(self, other, negate) ==
    IF ~IsLocation(self) THEN NotImplemented
    ELSE NegatedIf(negate, Loc_eq(self, other))

\* the default of the interpreter when both operands declined: two distinct
\* objects are unequal
Otherwise(r, negate) == IF r.t = "NotImplemented" THEN BoolV(negate) ELSE r

\* the interpreter's `a == b` / `a != b` once a's method returned l: the reflected
\* method of b is asked when a declined
PyEqNe_rest(a, b, negate, l) ==
    IF l.t # "NotImplemented" THEN l
    ELSE Otherwise(Loc_eq_ne(b, a, negate), negate)

\* the interpreter's `a == b` (negate = FALSE) and `a != b` (negate = TRUE)
PyEqNe(a, b, negate) == PyEqNe_rest(a, b, negate, Loc_eq_ne(a, b, negate))

PyEq(a, b) == PyEqNe(a, b, FALSE)
PyNe(a, b) == PyEqNe(a, b, TRUE)

\* functools.total_ordering derives __gt__, __le__ and __ge__ from the result
\* op_result of __lt__:
\*   _gt_from_lt: `not op_result and self != other`
\*   _le_from_lt: `op_result or self == other`
\*   _ge_from_lt: `not op_result`
\* and each hands on a NotImplemented (or an exception) of __lt__
Loc_from_lt(self, other, cmp, op_result) ==
    IF op_result.t # "bool" THEN op_result
    ELSE IF cmp = "lt" THEN op_result
    ELSE IF cmp = "ge" THEN Negated(op_result)
    ELSE IF op_result.b THEN BoolV(cmp = "le")
    ELSE PyEqNe(self, other, cmp = "gt")

\* the rich comparison method of a location for an ordering operator; the
\* builtin types decline a location operand
Loc_order(self, other, cmp) ==
    IF ~IsLocation(self) THEN NotImplemented
    ELSE Loc_from_lt(self, other, cmp, Loc_lt(self, other))

\* the operator the interpreter reflects an ordering operator to
Reflected(cmp) ==
    CASE cmp = "lt" -> "gt"
      [] cmp = "gt" -> "lt"
      [] cmp = "le" -> "ge"
      [] cmp = "ge" -> "le"

\* the interpreter's ordering once a's method returned l: the reflected method of
\* b is asked when a declined, and TypeError is raised when both decline
PyOrder_rest(a, b, cmp, l) ==
    IF l.t # "NotImplemented" THEN l
    ELSE Declined(Loc_order(b, a, Reflected(cmp)))

\* the interpreter's `a < b`, `a > b`, `a <= b`, `a >= b`
PyOrder(a, b, cmp) == PyOrder_rest(a, b, cmp, Loc_order(a, b, cmp))

-----------------------------------------------------------------------------
(* Hashing, equals, text, iteration and containment                        *)

RECURSIVE NatDigits(_)
\* the decimal digits of a natural number
NatDigits(n) ==
    IF n < 10 THEN <<Digits[n + 1]>>
    ELSE NatDigits(n \div 10) \o <<Digits[(n % 10) + 1]>>

\* str(n) of an int
PyStrInt(n) == IF n < 0 THEN <<"-">> \o NatDigits(0 - n) ELSE NatDigits(n)

\* hash(n) of a small int: the int itself, except that -1 hashes to -2
HashInt(n) == IF n = 0 - 1 THEN 0 - 2 ELSE n

RECURSIVE HashKey(_)
\* What the builtin hash() of a value depends on, written out as a sequence of
\* tokens: two values hash alike when their keys are equal (hash collisions of
\* different keys, which the builtin hash makes improbable, are left out).
\* hash(tuple) depends on the hashes of the items, in order; a str and the
\* bytes of the same characters hash alike, and the empty ones hash to 0.
HashKey(v) ==
    CASE v.t = "int" -> <<"int">> \o PyStrInt(HashInt(v.v))
      [] v.t = "None" -> <<"None">>
      [] v.t \in {"str", "bytes"} ->
            IF Len(v.s) = 0 THEN HashKey(IntV(0)) ELSE <<"text">> \o v.s \o <<"end">>
      [] v.t = "tuple" ->
            IF Len(v.items) = 0 THEN <<"(", ")">>
            ELSE <<"(">> \o HashKey(v.items[1])
                 \o Tail(HashKey(TupleV(Tail(v.items))))
      [] v.t = "Point" -> HashKey(IntV(v.pos))
      [] v.t = "Range" ->
            HashKey(TupleV(<<TupleV(<<IntV(v.start.pos), IntV(v.stop.pos)>>), v.seq>>))

\* the builtin hash(): lists and slices are unhashable
PyHash(v) ==
    IF v.t \in {"list", "slice"} THEN TypeError
    ELSE IF v.t = "tuple" /\ \E i \in 1..Len(v.items) : v.items[i].t \in {"list", "slice"}
    THEN TypeError
    ELSE [t |-> "hash", key |-> HashKey(v)]

\* BaseSequenceLocation.__hash__ (hash(self.pos)) and SequenceRange.__hash__
\* (hash((self.pos, self.seq)))
Loc_hash(self) == PyHash(self)

\* a variant of equals that compares seq whatever compare_seq says
Range_equals_with_seq(self, other, compare_seq, cast) ==
    IF cast \/ IsLocation(other) THEN Loc_eq_helper(self, other, TRUE)
    ELSE BoolV(FALSE)

\* SequenceRange.equals
Range_equals(self, other, compare_seq, cast) ==
    IF cast \/ IsLocation(other) THEN Loc_eq_helper(self, other, compare_seq)
    ELSE BoolV(FALSE)

\* SequencePoint.__str__
Point_str(self) == StrV(PyStrInt(self.pos))

\* a variant of __str__ that writes both bounds whatever the length
Range_str_both_bounds(self) ==
    StrV(PyStrInt(self.start.pos) \o <<":">> \o PyStrInt(self.stop.pos))

\* SequenceRange.__str__
Range_str(self) ==
    IF self.start.pos = self.stop.pos THEN Point_str(self.start)
    ELSE StrV(PyStrInt(self.start.pos) \o <<":">> \o PyStrInt(self.stop.pos))

\* str() of a location
Loc_str(self) == IF IsPoint(self) THEN Point_str(self) ELSE Range_str(self)

\* a variant of __iter__ that stops before stop.pos
Range_iter_exclusive(self) ==
    [i \in 1..Max2(0, self.stop.pos - self.start.pos) |->
        SequencePoint(IntV(self.start.pos + i - 1), FALSE)]

\* SequenceRange.__iter__, run to its end: the Points it yields, in order
Range_iter(self) ==
    [i \in 1..Max2(0, self.stop.pos - self.start.pos + 1) |->
        SequencePoint(IntV(self.start.pos + i - 1), FALSE)]

\* a variant of _contains whose upper bound is exclusive
Range__contains_exclusive(self, sequence_point) ==
    self.start.pos <= sequence_point.pos /\ sequence_point.pos < self.stop.pos

\* SequenceRange._contains
Range__contains(self, sequence_point) ==
    self.start.pos <= sequence_point.pos /\ sequence_point.pos <= self.stop.pos

\* part(map(self._contains, points)) for part = all or part = any
Range_part(self, part, points) ==
    BoolV(IF part = "all"
          THEN \A i \in 1..Len(points) : Range__contains(self, points[i])
          ELSE \E i \in 1..Len(points) : Range__contains(self, points[i]))

\* a variant that catches ValueError alone
Caught_value_only(e) == IsExc(e) /\ e.kind = "ValueError"

\* an exception that `except (ValueError, TypeError)` catches
Caught(e) == IsExc(e) /\ e.kind \in {"ValueError", "TypeError"}

\* SequenceRange.contains, the inner try: SequenceRange(item) returned or raised cast
Range_contains_range(self, part, cast) ==
    IF Caught(cast) THEN BoolV(FALSE)
    ELSE IF IsExc(cast) THEN cast
    ELSE Range_part(self, part, Range_iter(cast))

\* SequenceRange.contains, the outer try: SequencePoint(item) returned or raised p
Range_contains_point(self, item, part, p) ==
    IF Caught(p)
    THEN Range_contains_range(self, part,
            SequenceRange(item, NoneV, NoneV, NoneV, TRUE, NoneV, "none"))
    ELSE IF IsExc(p) THEN p
    ELSE BoolV(Range__contains(self, p))

\* SequenceRange.contains
Range_contains(self, item, part) ==
    IF IsRange(item) THEN Range_part(self, part, Range_iter(item))
    ELSE Range_contains_point(self, item, part, SequencePoint(item, TRUE))

\* SequenceRange.__contains__
Range_in(self, item) == Range_contains(self, item, "all")

-----------------------------------------------------------------------------
(* The operands a session starts from                                      *)

Ints == {IntV(n) : n \in MinInt..MaxInt}

\* Points a caller can hold: built by SequencePoint(n, validate=False)
Points == {SequencePoint(IntV(n), FALSE) : n \in MinInt..MaxInt}

Letters == <<"A", "B", "C", "D", "E", "F", "G", "H">>
\* the sequence strings of each length up to MaxSeqLen
SeqOf(n) == StrV(SubSeq(Letters, 1, n))

\* Ranges a caller can hold: built by SequenceRange(a, b, validate=False), bare or
\* with the seq of their length
BareRanges ==
    {SequenceRange(IntV(a), IntV(b), NoneV, NoneV, FALSE, NoneV, "none") :
        a \in 0..MaxBare, b \in 0..MaxBare}
SeqRanges ==
    {SequenceRange(IntV(a), IntV(b), SeqOf(b - a + 1), NoneV, FALSE, NoneV, "none") :
        <<a, b>> \in {<<1, 1>>, <<2, 2>>, <<1, 2>>, <<2, 3>>, <<1, 3>>}}
Ranges == BareRanges \cup SeqRanges

\* 2-tuples of indexes
IndexPairs == {TupleV(<<IntV(a), IntV(b)>>) : a \in 0..MaxPair, b \in 0..MaxPair}

ArithOperands == Ints \cup Points \cup Ranges \cup IndexPairs

\* strings and byte strings: numeric, "start:stop", and malformed
Strings ==
    {StrV(<<"2">>), StrV(<<"0">>), StrV(<<"1", "2">>), StrV(<<"1", ":", "3">>),
     StrV(<<"3", ":", "1">>), StrV(<<"1", ":">>), StrV(<<"a">>), StrV(<<"a", "b">>),
     StrV(<<>>)}
ByteStrings ==
    {BytesV(<<"2">>), BytesV(<<"1", "2">>), BytesV(<<"1", ":", "3">>), BytesV(<<"a", "b">>),
     BytesV(<<"1", ":">>), BytesV(<<"a">>), BytesV(<<>>)}

\* tuples and lists that are no pair of ints
OddSequences ==
    {TupleV(<<IntV(1)>>), TupleV(<<IntV(1), IntV(2), IntV(3)>>), TupleV(<<>>),
     TupleV(<<StrV(<<"1">>), StrV(<<"3">>)>>), TupleV(<<NoneV, IntV(2)>>),
     TupleV(<<IntV(1), NoneV>>), ListV(<<IntV(1), IntV(3)>>), ListV(<<IntV(3), IntV(1)>>),
     TupleV(<<SequencePoint(IntV(1), FALSE), SequencePoint(IntV(3), FALSE)>>),
     TupleV(<<SequencePoint(IntV(0), FALSE), SequencePoint(IntV(2), FALSE)>>)}

Slices ==
    {SliceV(IntV(0), IntV(3), NoneV), SliceV(IntV(1), IntV(3), IntV(1)),
     SliceV(IntV(1), IntV(3), IntV(2)), SliceV(IntV(2), IntV(1), NoneV),
     SliceV(NoneV, IntV(3), NoneV)}

Others == Strings \cup ByteStrings \cup OddSequences \cup {NoneV, ObjectV}

\* what a caller passes as the first argument of a constructor
NewStarts == ArithOperands \cup Others \cup Slices

\* what a caller passes as the stop of a Range constructor
NewStops ==
    {NoneV, IntV(0), IntV(1), IntV(3), StrV(<<"3">>), BytesV(<<"3">>), StrV(<<"1", "3">>),
     ObjectV,
     SequencePoint(IntV(2), FALSE), SequencePoint(IntV(0), FALSE),
     SequenceRange(IntV(2), IntV(2), NoneV, NoneV, FALSE, NoneV, "none")}

\* the keyword arguments a caller passes to a Range constructor
SeqKws ==
    {Kw(v, l, NoneV, NoneV) : v \in BOOLEAN, l \in {NoneV, IntV(0), IntV(1), IntV(2), IntV(3)}}
    \cup {Kw(v, IntV(2), q, NoneV) : v \in BOOLEAN, q \in {StrV(<<>>), SeqOf(1), SeqOf(2)}}
    \cup {Kw(v, NoneV, s, NoneV) :
            v \in BOOLEAN, s \in {StrV(<<>>), SeqOf(1), SeqOf(2), SeqOf(3)}}
    \cup {Kw(v, NoneV, NoneV, f) : v \in BOOLEAN, f \in {StrV(<<>>), SeqOf(2), SeqOf(MaxSeqLen)}}
    \cup {Kw(TRUE, NoneV, s, SeqOf(MaxSeqLen)) :
            s \in {StrV(<<>>), StrV(<<"B", "C">>), StrV(<<"Z">>), SeqOf(MaxSeqLen)}}
    \cup {Kw(TRUE, NoneV, s, StrV(<<"A", "B", "A", "B">>)) :
            s \in {StrV(<<"B">>), StrV(<<"A", "B">>), StrV(<<"B", "A">>)}}

\* max_length as passed to from_center_and_window
MaxLengths == {InfV, NoneV, IntV(1), IntV(3)}

\* what a location is compared with
CmpOperands == ArithOperands \cup Others

\* locations with positions of two digits, and a Range that differs from one of
\* SeqRanges in its seq alone
BigLocs ==
    {SequencePoint(IntV(10), FALSE), SequencePoint(IntV(12), FALSE),
     SequenceRange(IntV(9), IntV(10), NoneV, NoneV, FALSE, NoneV, "none"),
     SequenceRange(IntV(10), IntV(12), NoneV, NoneV, FALSE, NoneV, "none"),
     SequenceRange(IntV(12), IntV(12), NoneV, NoneV, FALSE, NoneV, "none")}
OtherSeqRanges ==
    {SequenceRange(IntV(1), IntV(3), StrV(<<"A", "B", "D">>), NoneV, FALSE, NoneV, "none")}

\* the locations a caller queries, and what it queries them with
QueryLocs == Points \cup Ranges \cup BigLocs \cup OtherSeqRanges
QueryItems ==
    CmpOperands \cup BigLocs \cup OtherSeqRanges
    \cup {StrV(<<"a", ":", "b">>), StrV(<<"1", ":", "2", ":", "3">>), IntV(10),
          TupleV(<<IntV(3), IntV(1)>>), TupleV(<<IntV(10), IntV(12)>>)}

-----------------------------------------------------------------------------
(* The session                                                             *)

Ready == op = "none"

\* SequencePoint(x, validate=kw.validate)
NewPoint ==
    /\ Ready
    /\ kw \in {NoKw, Unvalidated}
    /\ op' = "SequencePoint"
    /\ res' = SequencePoint(x, kw.validate)
    /\ UNCHANGED <<x, y, kw, depth>>

\* SequencePoint.from_index(x, validate=kw.validate)
PointFromIndex ==
    /\ Ready
    /\ kw \in {NoKw, Unvalidated}
    /\ op' = "SequencePoint.from_index"
    /\ res' = Point_from_index(x, kw.validate)
    /\ UNCHANGED <<x, y, kw, depth>>

\* SequenceRange(x, y, **kw)
NewRange ==
    /\ Ready
    /\ op' = "SequenceRange"
    /\ res' = SequenceRange(x, y, kw.seq, kw.full_sequence, kw.validate, kw.length, "none")
    /\ UNCHANGED <<x, y, kw, depth>>

\* SequenceRange.from_index(x, y, **kw)
RangeFromIndex ==
    /\ Ready
    /\ op' = "SequenceRange.from_index"
    /\ res' = Range_from_index(x, y, kw)
    /\ UNCHANGED <<x, y, kw, depth>>

\* SequenceRange.from_slice(x, y, **kw)
RangeFromSlice ==
    /\ Ready
    /\ op' = "SequenceRange.from_slice"
    /\ res' = Range_from_slice(x, y, kw)
    /\ UNCHANGED <<x, y, kw, depth>>

\* SequenceRange.from_center_and_window(x, y, max_length, **kw)
RangeFromCenterAndWindow ==
    /\ Ready
    /\ IsInt(x) /\ IsInt(y)
    /\ \E m \in MaxLengths :
          /\ kw' = [kw EXCEPT !.max_length = m]
          /\ res' = Range_from_center_and_window(x, y, m, kw)
    /\ op' = "SequenceRange.from_center_and_window"
    /\ UNCHANGED <<x, y, depth>>

\* SequenceRange.from_sequence(kw.full_sequence, kw.seq)
RangeFromSequence ==
    /\ Ready
    /\ kw.validate /\ IsNone(kw.length)
    /\ ~IsNone(kw.seq) /\ ~IsNone(kw.full_sequence)
    /\ op' = "SequenceRange.from_sequence"
    /\ res' = Range_from_sequence(kw.full_sequence, kw.seq)
    /\ UNCHANGED <<x, y, kw, depth>>

\* the outcome of `x + y`
Add ==
    /\ Ready
    /\ IsLocation(x) \/ IsLocation(y)
    /\ op' = "add"
    /\ res' = PyAdd(x, y)
    /\ UNCHANGED <<x, y, kw, depth>>

\* the outcome of `x - y`
Sub ==
    /\ Ready
    /\ IsLocation(x) \/ IsLocation(y)
    /\ op' = "sub"
    /\ res' = PySub(x, y)
    /\ UNCHANGED <<x, y, kw, depth>>

\* the outcome of x.validate()
Validate ==
    /\ Ready
    /\ IsLocation(x)
    /\ op' = "validate"
    /\ res' = Loc_validate(x)
    /\ UNCHANGED <<x, y, kw, depth>>

\* the outcome of x.is_valid()
IsValid ==
    /\ Ready
    /\ IsLocation(x)
    /\ op' = "is_valid"
    /\ res' = Loc_is_valid(x)
    /\ UNCHANGED <<x, y, kw, depth>>

\* the outcome of `x == y`
Eq ==
    /\ Ready
    /\ IsLocation(x) \/ IsLocation(y)
    /\ op' = "eq"
    /\ res' = PyEq(x, y)
    /\ UNCHANGED <<x, y, kw, depth>>

\* the outcome of `x != y`
Ne ==
    /\ Ready
    /\ IsLocation(x) \/ IsLocation(y)
    /\ op' = "ne"
    /\ res' = PyNe(x, y)
    /\ UNCHANGED <<x, y, kw, depth>>

\* the outcome of `x < y`, `x > y`, `x <= y` or `x >= y`
Order ==
    /\ Ready
    /\ IsLocation(x) \/ IsLocation(y)
    /\ \E cmp \in {"lt", "gt", "le", "ge"} :
          /\ op' = cmp
          /\ res' = PyOrder(x, y, cmp)
    /\ UNCHANGED <<x, y, kw, depth>>

\* the outcome of hash(x)
Hash ==
    /\ Ready
    /\ IsLocation(x)
    /\ op' = "hash"
    /\ res' = Loc_hash(x)
    /\ UNCHANGED <<x, y, kw, depth>>

\* the outcome of x.equals(y, compare_seq=.., cast=..)
Equals ==
    /\ Ready
    /\ IsRange(x)
    /\ \E compare_seq \in BOOLEAN, cast \in BOOLEAN :
          /\ kw' = [kw EXCEPT !.compare_seq = compare_seq, !.cast = cast]
          /\ res' = Range_equals(x, y, compare_seq, cast)
    /\ op' = "equals"
    /\ UNCHANGED <<x, y, depth>>

\* the outcome of str(x)
Str ==
    /\ Ready
    /\ IsLocation(x)
    /\ op' = "str"
    /\ res' = Loc_str(x)
    /\ UNCHANGED <<x, y, kw, depth>>

\* the Points a complete iteration of x yields; the caller may iterate again
Iter ==
    /\ IsRange(x)
    /\ \/ Ready /\ depth' = depth
       \/ op = "iter" /\ depth < MaxChain /\ depth' = depth + 1
    /\ op' = "iter"
    /\ res' = ListV(Range_iter(x))
    /\ UNCHANGED <<x, y, kw>>

\* the outcome of x.contains(y, part=..)
Contains ==
    /\ Ready
    /\ IsRange(x)
    /\ \E part \in {"all", "any"} :
          /\ kw' = [kw EXCEPT !.part = part]
          /\ res' = Range_contains(x, y, part)
    /\ op' = "contains"
    /\ UNCHANGED <<x, y, depth>>

\* the outcome of `y in x`
In ==
    /\ Ready
    /\ IsRange(x)
    /\ op' = "in"
    /\ res' = Range_in(x, y)
    /\ UNCHANGED <<x, y, kw, depth>>

\* the caller keeps the value a call returned and goes on with it as x or as y
Chain ==
    /\ ~Ready
    /\ IsLocation(res)
    /\ depth < MaxChain
    /\ \/ x' = res /\ y' = y
       \/ y' = res /\ x' = x
    /\ op' = "none"
    /\ res' = NoneV
    /\ kw' = IF kw.validate THEN NoKw ELSE Unvalidated
    /\ depth' = depth + 1

\* a session of arithmetic
InitArith ==
    /\ op = "none"
    /\ x \in ArithOperands
    /\ y \in ArithOperands
    /\ IsLocation(x) \/ IsLocation(y)
    /\ kw = NoKw
    /\ res = NoneV
    /\ depth = 0

NextArith == Add \/ Sub \/ Validate \/ IsValid \/ Chain

SpecArith == InitArith /\ [][NextArith]_vars

\* a session of construction
InitNew ==
    /\ op = "none"
    /\ x \in NewStarts
    /\ y \in NewStops
    /\ kw \in SeqKws
    /\ res = NoneV
    /\ depth = 0

NextNew ==
    \/ NewPoint \/ PointFromIndex
    \/ NewRange \/ RangeFromIndex \/ RangeFromSlice
    \/ RangeFromCenterAndWindow \/ RangeFromSequence
    \/ Validate \/ IsValid \/ Chain

SpecNew == InitNew /\ [][NextNew]_vars

\* a session of comparison
InitCmp ==
    /\ op = "none"
    /\ x \in CmpOperands
    /\ y \in CmpOperands
    /\ IsLocation(x) \/ IsLocation(y)
    /\ kw = NoKw
    /\ res = NoneV
    /\ depth = 0

NextCmp == Eq \/ Ne \/ Order

SpecCmp == InitCmp /\ [][NextCmp]_vars

\* a session of queries
InitQuery ==
    /\ op = "none"
    /\ x \in QueryLocs
    /\ y \in QueryItems
    /\ kw = NoKw
    /\ res = NoneV
    /\ depth = 0

NextQuery == Hash \/ Equals \/ Str \/ Iter \/ Contains \/ In

SpecQuery == InitQuery /\ [][NextQuery]_vars

\* any session
Init == InitArith \/ InitNew \/ InitCmp \/ InitQuery

Next == NextArith \/ NextNew \/ NextCmp \/ NextQuery

Spec == Init /\ [][Next]_vars

-----------------------------------------------------------------------------
(* Properties                                                              *)

PointCtors == {"SequencePoint", "SequencePoint.from_index"}
RangeCtors ==
    {"SequenceRange", "SequenceRange.from_index", "SequenceRange.from_slice",
     "SequenceRange.from_center_and_window", "SequenceRange.from_sequence"}
OrderOps == {"lt", "gt", "le", "ge"}

\* the values a session holds
Held == {x, y, res}

\* a sequence of n elements whose element at 0-based index i is i
Ruler(n) == [i \in 1..n |-> i - 1]

\* what slicing a long enough sequence with r.slice selects
Selected(r) == PySlice(Ruler(r.stop.pos + 2), r.slice[1], r.slice[2])

C1_Point(p) ==
    /\ p.index = p.pos - 1
    /\ p.slice = <<p.index, p.index + 1>>

C1_Range(r) ==
    /\ Range_index(r) = <<r.start.pos - 1, r.stop.pos - 1>>
    /\ r.slice = <<r.start.pos - 1, r.stop.pos>>
    /\ Range_length(r) = r.stop.pos - r.start.pos + 1
    /\ Len(Selected(r)) = Range_length(r)
    /\ Selected(r)[1] = r.start.index
    /\ Selected(r)[Len(Selected(r))] = r.stop.index

\* C1: the derived coordinates of every valid Point and every valid Range are
\* the 0-based equivalents of their 1-based positions: index = pos - 1,
\* slice = [index, index + 1) for a Point; index = (start.pos - 1, stop.pos - 1),
\* slice = [start.pos - 1, stop.pos) and length = stop.pos - start.pos + 1 for a
\* Range, whose slice selects exactly length elements of a sequence, the first at
\* start.index and the last at stop.index.
C1_DerivedCoordinates ==
    \A v \in Held :
        /\ (IsPoint(v) /\ Point_validate(v) = NoneV) => C1_Point(v)
        /\ (IsRange(v) /\ Range_validate(v) = NoneV) => C1_Range(v)

\* a constructor returned a valid Range of several elements
C1_Witness ==
    /\ op \in RangeCtors
    /\ IsRange(res)
    /\ Range_validate(res) = NoneV
    /\ Range_length(res) >= 3

\* C2: Point arithmetic is index arithmetic.  For Points p, q and an int k:
\* (p + q).index = p.index + q.index, (p - q).index = p.index - q.index,
\* (p + k).index = (k + p).index = p.index + k, (p - k).index = p.index - k and
\* (k - p).index = k - p.index; so Point(1) + Point(1) = Point(1) and
\* Point(1) + 1 = Point(2).
C2_PointIndexArithmetic ==
    /\ (op = "add" /\ IsPoint(x) /\ IsPoint(y)) =>
            IsPoint(res) /\ res.index = x.index + y.index
    /\ (op = "sub" /\ IsPoint(x) /\ IsPoint(y)) =>
            IsPoint(res) /\ res.index = x.index - y.index
    /\ (op = "add" /\ IsPoint(x) /\ IsInt(y)) =>
            IsPoint(res) /\ res.index = x.index + y.v
    /\ (op = "add" /\ IsInt(x) /\ IsPoint(y)) =>
            IsPoint(res) /\ res.index = y.index + x.v
    /\ (op = "sub" /\ IsPoint(x) /\ IsInt(y)) =>
            IsPoint(res) /\ res.index = x.index - y.v
    /\ (op = "sub" /\ IsInt(x) /\ IsPoint(y)) =>
            IsPoint(res) /\ res.index = x.v - y.index
    /\ (op = "add" /\ IsPoint(x) /\ x.pos = 1 /\ IsPoint(y) /\ y.pos = 1) => res.pos = 1
    /\ (op = "add" /\ IsPoint(x) /\ x.pos = 1 /\ y = IntV(1)) => res.pos = 2

\* an int minus a Point that is itself the result of a subtraction of Points
C2_Witness ==
    /\ op = "sub"
    /\ depth = 1
    /\ IsInt(x)
    /\ IsPoint(y) /\ y.pos < 1
    /\ IsPoint(res) /\ res.index = x.v - y.index

\* the index pair an operand of Range arithmetic is promoted to
C3_Operand(o) == IsRange(o) \/ IsPoint(o) \/ IsInt(o) \/ o \in IndexPairs
C3_Indexes(o) ==
    CASE IsRange(o) -> Range_index(o)
      [] IsPoint(o) -> <<o.index, o.index>>
      [] IsInt(o) -> <<o.v, o.v>>
      [] o.t = "tuple" -> <<o.items[1].v, o.items[2].v>>

C3_ElementWise(r, o, operator, out) ==
    /\ IsRange(out)
    /\ out.start.index = Apply(operator, r.start.index, C3_Indexes(o)[1])
    /\ out.stop.index = Apply(operator, r.stop.index, C3_Indexes(o)[2])

\* C3: Range arithmetic is element-wise index arithmetic on the two bounds once
\* the other operand (a Range, a Point, an int or a 2-tuple of indexes) is
\* promoted to a Range, and Point + Range is answered by the reverse-add of the
\* Range: it yields the Range that Range + Point yields.
C3_RangeArithmetic ==
    /\ (op \in {"add", "sub"} /\ IsRange(x) /\ C3_Operand(y)) =>
            C3_ElementWise(x, y, op, res)
    /\ (op = "add" /\ IsPoint(x) /\ IsRange(y)) =>
            IsRange(res) /\ C3_ElementWise(y, x, op, res)

\* a location or a plain int
C4_Operand(o) == IsLocation(o) \/ IsInt(o)

\* C4: a subtraction a - b of Points, Ranges and ints (at least one of them a
\* Point or a Range) never raises; an out-of-range result is returned
\* unvalidated, validate() on it raises ValueError and is_valid() is false.
C4_SubtractionNeverRaises ==
    (op = "sub" /\ C4_Operand(x) /\ C4_Operand(y)) =>
        /\ IsLocation(res)
        /\ Loc_is_valid(res) = BoolV(Loc_validate(res) = NoneV)

\* the arguments SequencePoint accepts: an int, a numeric string, a Point, a
\* Range of length 1
C5_Accepted(v) ==
    \/ IsInt(v)
    \/ IsPoint(v)
    \/ v.t = "str" /\ Len(v.s) > 0 /\ AllDigits(v.s)
    \/ IsRange(v) /\ Range_length(v) = 1

\* C5: SequencePoint(x) with validation enabled raises ValueError or returns a
\* Point with pos >= 1, for every accepted argument x.
C5_ValidatedPoint ==
    (op = "SequencePoint" /\ kw.validate /\ C5_Accepted(x)) =>
        \/ res = ValueError
        \/ IsPoint(res) /\ res.pos >= 1

\* the bounds of a Range are in range: start.pos >= 1 and stop.pos >= start.pos
C6_InRange(r) == r.start.pos >= 1 /\ r.stop.pos >= r.start.pos

\* what the constructor call of this state returns with validate=False
\* (from_sequence takes no validate argument)
C6_Unvalidated ==
    CASE op = "SequenceRange" ->
            SequenceRange(x, y, kw.seq, kw.full_sequence, FALSE, kw.length, "none")
      [] op = "SequenceRange.from_index" ->
            Range_from_index(x, y, [kw EXCEPT !.validate = FALSE])
      [] op = "SequenceRange.from_slice" ->
            Range_from_slice(x, y, [kw EXCEPT !.validate = FALSE])
      [] op = "SequenceRange.from_center_and_window" ->
            Range_from_center_and_window(x, y, kw.max_length, [kw EXCEPT !.validate = FALSE])
      [] OTHER -> NoneV

\* C6: every validating Range constructor (SequenceRange, from_index,
\* from_slice, from_center_and_window, from_sequence) returns only Ranges with
\* start.pos >= 1 and stop.pos >= start.pos, and raises ValueError for bounds
\* that normalize to anything else, in whatever form they were given.
C6_ValidatedRange ==
    (op \in RangeCtors /\ kw.validate) =>
        /\ IsRange(res) => C6_InRange(res)
        /\ (IsRange(C6_Unvalidated) /\ ~C6_InRange(C6_Unvalidated)) => res = ValueError

\* a validating constructor refused bounds given as a pair of Points of which
\* the first is out of range
C6_Witness ==
    /\ op = "SequenceRange"
    /\ kw.validate
    /\ x.t = "tuple" /\ Len(x.items) = 2 /\ IsPoint(x.items[1]) /\ x.items[1].pos < 1
    /\ IsRange(C6_Unvalidated)
    /\ res = ValueError

\* C7: every constructed Range whose seq is not None has len(seq) = length, and
\* a supplied seq of any other length (shorter, longer or empty) makes the
\* construction fail with ValueError.
C7_SeqLength ==
    /\ (op \in RangeCtors /\ IsRange(res) /\ ~IsNone(res.seq)) =>
            Len(res.seq.s) = Range_length(res)
    /\ (op = "SequenceRange" /\ IsInt(x) /\ IsInt(y) /\ kw.seq.t = "str"
            /\ Len(kw.seq.s) # y.v - x.v + 1) =>
            res = ValueError

\* integer coordinates in one of the constructor forms: explicit stop, stop
\* inferred from length=, stop inferred from len(seq)
C8_IntForm ==
    /\ IsInt(x)
    /\ IsNone(kw.full_sequence)
    /\ \/ IsInt(y) /\ IsNone(kw.length) /\ IsNone(kw.seq)
       \/ IsNone(y) /\ IsInt(kw.length) /\ kw.length.v >= 1 /\ IsNone(kw.seq)
       \/ IsNone(y) /\ IsNone(kw.length) /\ kw.seq.t = "str" /\ Len(kw.seq.s) >= 1

\* C8: with validate=False a Point or a Range built from integer coordinates is
\* returned whatever the coordinates are, and is_valid() on it is false exactly
\* when pos < 1 (Point) or start.pos < 1 or stop.pos < start.pos (Range).
C8_UnvalidatedConstruction ==
    /\ (op \in PointCtors /\ ~kw.validate /\ IsInt(x)) =>
            IsPoint(res) /\ Loc_is_valid(res) = BoolV(res.pos >= 1)
    /\ (op \in {"SequenceRange", "SequenceRange.from_index", "SequenceRange.from_slice"}
            /\ ~kw.validate /\ C8_IntForm) =>
            IsRange(res) /\ Loc_is_valid(res) = BoolV(C6_InRange(res))

\* C9: equality never raises: x == y and x != y, with the location on either
\* side and any other operand, return a boolean.
C9_EqualityNeverRaises ==
    op \in {"eq", "ne"} => res \in {BoolV(TRUE), BoolV(FALSE)}

\* operands no location type can be cast from: a string or a byte string
\* without a digit, None, an arbitrary object, a tuple that is no pair
C10_Incompatible(v) ==
    \/ v.t \in {"None", "object"}
    \/ v.t \in {"str", "bytes"} /\ \A i \in 1..Len(v.s) : ~IsDigit(v.s[i])
    \/ v.t = "tuple" /\ Len(v.items) # 2

\* C10: each of <, >, <=, >= between a location and an incompatible operand, in
\* either order, raises TypeError.
C10_OrderingTypeError ==
    (op \in OrderOps /\ (C10_Incompatible(x) \/ C10_Incompatible(y))) => res = TypeError

\* the bounds of a location once a Point n is promoted to the Range (n, n)
C11_Promoted(v) == IF IsPoint(v) THEN <<v.pos, v.pos>> ELSE Loc_pos(v)

\* the order of two promoted locations under an ordering operator
C11_Order(p, q, cmp) ==
    CASE cmp = "lt" -> PosLess(p, q)
      [] cmp = "gt" -> PosLess(q, p)
      [] cmp = "le" -> ~PosLess(q, p)
      [] cmp = "ge" -> ~PosLess(p, q)

\* a Point and a Range, in either order
C11_Mixed == (IsPoint(x) /\ IsRange(y)) \/ (IsRange(x) /\ IsPoint(y))

\* C11: comparisons between the two types go through the casting protocol:
\* SequencePoint(n) == SequenceRange(n, n) is true in both orders, and a Point
\* is ordered against any Range as the degenerate Range (n, n), without raising.
C11_MixedComparison ==
    /\ (op = "eq" /\ C11_Mixed /\ C11_Promoted(x) = C11_Promoted(y)
            /\ (IsRange(x) => IsNone(x.seq)) /\ (IsRange(y) => IsNone(y.seq))) =>
            res = BoolV(TRUE)
    /\ (op \in OrderOps /\ C11_Mixed) =>
            res = BoolV(C11_Order(C11_Promoted(x), C11_Promoted(y), op))

\* two valid values of the same type
C12_SameTyped ==
    /\ IsLocation(x) /\ x.t = y.t
    /\ Loc_validate(x) = NoneV /\ Loc_validate(y) = NoneV

C12_Holds(r) == r = BoolV(TRUE)

\* exactly one of three
C12_ExactlyOne(a, b, c) == (a /\ ~b /\ ~c) \/ (~a /\ b /\ ~c) \/ (~a /\ ~b /\ c)

\* C12: on valid values of the same type the comparisons are a total order
\* consistent with ==: exactly one of x < y, x == y, x > y holds, x > y holds
\* iff y < x, and x < y is the order of pos (lexicographic for Ranges).
C12_TotalOrder ==
    (op \in OrderOps \cup {"eq"} /\ C12_SameTyped) =>
        /\ C12_ExactlyOne(C12_Holds(PyOrder(x, y, "lt")), C12_Holds(PyEq(x, y)),
                          C12_Holds(PyOrder(x, y, "gt")))
        /\ C12_Holds(PyOrder(x, y, "gt")) <=> C12_Holds(PyOrder(y, x, "lt"))
        /\ C12_Holds(PyOrder(x, y, "lt")) <=> PosLess(Loc_pos(x), Loc_pos(y))

\* a hashable operand the claim names: the same type, a plain int, a 2-tuple of ints
C13_Hashable(self, v) ==
    \/ (IsLocation(v) /\ v.t = self.t)
    \/ IsInt(v)
    \/ (v.t = "tuple" /\ Len(v.items) = 2 /\ Elements_are_ints(v))

\* C13: hashing is consistent with equality: whenever x == y holds for a Point
\* or Range x and a hashable y (same type, int, 2-tuple of ints), hash(x) == hash(y).
C13_HashConsistentWithEq ==
    (op = "hash" /\ C13_Hashable(x, y) /\ PyEq(x, y) = BoolV(TRUE)) =>
        res = PyHash(y)

\* two Ranges with the same bounds and different seq (one possibly None)
C14_SameBoundsOtherSeq ==
    IsRange(x) /\ IsRange(y) /\ Loc_pos(x) = Loc_pos(y) /\ x.seq # y.seq

\* y is the plain 2-tuple of the bounds of the Range x
C14_TupleOfBounds ==
    /\ IsRange(x) /\ y.t = "tuple" /\ Len(y.items) = 2 /\ Elements_are_ints(y)
    /\ <<y.items[1].v, y.items[2].v>> = Loc_pos(x)

\* C14: seq takes part in == and in the hash but is ignored on request: two
\* Ranges with the same bounds and different seq are unequal and hash
\* differently while equals(compare_seq=False) is true; a Range with a seq is
\* unequal to the 2-tuple of its bounds and a Range without seq is equal to it.
C14_SeqInEquality ==
    /\ (op = "hash" /\ C14_SameBoundsOtherSeq) =>
            (PyEq(x, y) = BoolV(FALSE) /\ res # PyHash(y))
    /\ (op = "equals" /\ C14_SameBoundsOtherSeq /\ ~kw.compare_seq) =>
            (res = BoolV(TRUE) /\ PyEq(x, y) = BoolV(FALSE))
    /\ (op \in {"hash", "equals"} /\ C14_TupleOfBounds) =>
            PyEq(x, y) = BoolV(IsNone(x.seq))

\* equals(compare_seq=False) was asked of two Ranges that both carry a seq,
\* with the same bounds and different text, and answered true
C14_Witness ==
    /\ op = "equals" /\ C14_SameBoundsOtherSeq /\ ~kw.compare_seq
    /\ ~IsNone(x.seq) /\ ~IsNone(y.seq)
    /\ res = BoolV(TRUE)

\* an operand that is not a Range: a 2-tuple, an int, a Point
C15_NotARange(v) == IsInt(v) \/ IsPoint(v) \/ (v.t = "tuple" /\ Len(v.items) = 2)

\* an operand that cannot be cast to a Range: a string without a digit, None,
\* a Point, a tuple of the wrong shape
C15_Uncastable(v) ==
    \/ (v.t = "str" /\ \A i \in 1..Len(v.s) : ~IsDigit(v.s[i]))
    \/ IsNone(v)
    \/ IsPoint(v)
    \/ (v.t = "tuple" /\ Len(v.items) # 2)

\* C15: equals returns the boolean false, never a non-boolean and never an
\* exception, with cast=False for an operand that is not a Range and with
\* cast=True for an operand that cannot be cast to one.
C15_EqualsFalse ==
    (op = "equals" /\ ((~kw.cast /\ C15_NotARange(y)) \/ (kw.cast /\ C15_Uncastable(y)))) =>
        res = BoolV(FALSE)

\* a valid Range
C16_ValidRange(v) == IsRange(v) /\ Range_validate(v) = NoneV

\* an item that names coordinates: a valid Point or Range, an integer >= 1, a
\* 2-tuple of valid bounds
C16_Item(v) ==
    \/ (IsPoint(v) /\ Point_validate(v) = NoneV)
    \/ C16_ValidRange(v)
    \/ (IsInt(v) /\ v.v >= 1)
    \/ (v.t = "tuple" /\ Len(v.items) = 2 /\ Elements_are_ints(v)
            /\ 1 <= v.items[1].v /\ v.items[1].v <= v.items[2].v)

\* the first and the last position of an item
C16_Bounds(v) ==
    CASE IsPoint(v) -> <<v.pos, v.pos>>
      [] IsRange(v) -> Loc_pos(v)
      [] IsInt(v) -> <<v.v, v.v>>
      [] OTHER -> <<v.items[1].v, v.items[2].v>>

\* all of the item lies within self / some position of the item does
C16_Within(self, item) ==
    self.start.pos <= C16_Bounds(item)[1] /\ C16_Bounds(item)[2] <= self.stop.pos
C16_Overlaps(self, item) ==
    \E n \in C16_Bounds(item)[1]..C16_Bounds(item)[2] :
        self.start.pos <= n /\ n <= self.stop.pos

C17_Uninterpretable(v) ==
    \/ (v.t = "str" /\ \A i \in 1..Len(v.s) : ~IsDigit(v.s[i]))
    \/ (v.t = "str" /\ HasSeparator(v.s)
            /\ (Len(Split(v.s)) # 2 \/ \E i \in 1..Len(Split(v.s)) : ~AllDigits(Split(v.s)[i])))
    \/ IsNone(v)
    \/ v.t = "object"
    \/ (v.t \in {"tuple", "list"} /\ Len(v.items) # 2)
    \/ (IsInt(v) /\ v.v < 1)
    \/ (v.t = "tuple" /\ Len(v.items) = 2 /\ Elements_are_ints(v)
            /\ v.items[1].v > v.items[2].v)

\* C17: contains, with either part, and the `in` operator return false and
\* never raise for an item that cannot be interpreted as a coordinate.
C17_UninterpretableItem ==
    (op \in {"contains", "in"} /\ C17_Uninterpretable(y)) => res = BoolV(FALSE)

\* contains(part=any) answered false for a reversed pair whose bounds both lie
\* inside the Range
C17_Witness ==
    /\ op = "contains" /\ kw.part = "any" /\ C16_ValidRange(x)
    /\ y.t = "tuple" /\ Len(y.items) = 2 /\ Elements_are_ints(y)
    /\ y.items[1].v > y.items[2].v
    /\ Range__contains(x, [pos |-> y.items[1].v]) /\ Range__contains(x, [pos |-> y.items[2].v])
    /\ res = BoolV(FALSE)

\* what one iteration of a valid Range(a, b) yields
C18_Yields ==
    (op = "iter" /\ C16_ValidRange(x)) =>
        /\ Len(res.items) = x.stop.pos - x.start.pos + 1
        /\ IntV(Len(res.items)) = Range_len(x)
        /\ \A i \in 1..Len(res.items) :
            /\ IsPoint(res.items[i])
            /\ Point_validate(res.items[i]) = NoneV
            /\ PyEq(res.items[i], SequencePoint(IntV(x.start.pos + i - 1), TRUE)) = BoolV(TRUE)
            /\ i > 1 => PyOrder(res.items[i - 1], res.items[i], "lt") = BoolV(TRUE)

\* C18: iterating a valid Range(a, b) yields exactly b - a + 1 Points, in
\* increasing order, equal to Point(a), ..., Point(b); their number is the
\* length of the Range, each of them is valid, and a second iteration of the
\* same Range yields the same sequence.
C18_Iteration ==
    /\ []C18_Yields
    /\ [][(op = "iter" /\ op' = "iter") => (res' = res /\ x' = x)]_vars

\* a Range of three positions was iterated a second time
C18_Witness ==
    /\ op = "iter" /\ depth = 1 /\ C16_ValidRange(x)
    /\ Len(res.items) = 3
    /\ res.items[3].pos = x.stop.pos

\* a valid Point / a valid Range without seq
C19_Point(v) == IsPoint(v) /\ Point_validate(v) = NoneV
C19_Range(v) == C16_ValidRange(v) /\ IsNone(v.seq)

\* r.index as the tuple it is, and r.slice as the slice object it is
C19_IndexOf(r) == TupleV(<<IntV(r.start.index), IntV(r.stop.index)>>)
C19_SliceOf(r) == SliceV(IntV(r.slice[1]), IntV(r.slice[2]), NoneV)

\* a call without seq, full_sequence or length
C19_PlainCall == IsNone(kw.seq) /\ IsNone(kw.full_sequence) /\ IsNone(kw.length)

\* a == b evaluated to True
C19_Equal(a, b) == IsLocation(a) /\ PyEq(a, b) = BoolV(TRUE)

\* C19: the alternate-coordinate constructors invert the derived accessors:
\* from_index(p.index) == p, from_index(r.index) == r, from_index(i, j) ==
\* from_index((i, j)), from_slice(r.slice) == r, and from_slice(a, b) ==
\* from_slice(slice(a, b)) for 0 <= a < b.
C19_RoundTrip ==
    /\ \A p \in Held : C19_Point(p) =>
            C19_Equal(Point_from_index(IntV(p.index), TRUE), p)
    /\ \A r \in Held : C19_Range(r) =>
            /\ C19_Equal(Range_from_index(C19_IndexOf(r), NoneV, NoKw), r)
            /\ C19_Equal(Range_from_index(IntV(r.start.index), IntV(r.stop.index), NoKw), r)
            /\ C19_Equal(Range_from_slice(C19_SliceOf(r), NoneV, NoKw), r)
            /\ C19_Equal(Range_from_slice(IntV(r.slice[1]), IntV(r.slice[2]), NoKw), r)
    /\ (op = "SequenceRange.from_index" /\ C19_PlainCall /\ IsInt(x) /\ IsInt(y)
            /\ IsRange(res)) =>
            C19_Equal(Range_from_index(TupleV(<<x, y>>), NoneV, kw), res)
    /\ (op = "SequenceRange.from_slice" /\ C19_PlainCall /\ IsInt(x) /\ IsInt(y)
            /\ 0 <= x.v /\ x.v < y.v) =>
            C19_Equal(Range_from_slice(SliceV(x, y, NoneV), NoneV, kw), res)

\* from_slice(a, b) with 0 <= a < b built a Range of more than one position
C19_Witness ==
    /\ op = "SequenceRange.from_slice" /\ C19_PlainCall
    /\ IsInt(x) /\ IsInt(y) /\ 0 <= x.v /\ x.v < y.v
    /\ C19_Range(res) /\ res.start.pos < res.stop.pos
    /\ res.slice = <<x.v, y.v>>

\* s is the decimal numeral of the positive integer n
C20_Decimal(s, n) == AllDigits(s) /\ s[1] # "0" /\ DigitsVal(s) = n

\* C20: the textual form round-trips: for a valid Range r without seq, str(r)
\* is "<start>:<stop>" when start != stop and "<start>" when start == stop, and
\* SequenceRange(str(r)) == r; for a valid Point p, str(p) is the decimal pos
\* and SequencePoint(str(p)) == p.
C20_TextRoundTrip ==
    /\ (op = "str" /\ C19_Range(x)) =>
        /\ res.t = "str"
        /\ IF x.start.pos = x.stop.pos
           THEN C20_Decimal(res.s, x.start.pos)
           ELSE /\ Len(Split(res.s)) = 2
                /\ C20_Decimal(Split(res.s)[1], x.start.pos)
                /\ C20_Decimal(Split(res.s)[2], x.stop.pos)
        /\ C19_Equal(SequenceRange(res, NoneV, NoneV, NoneV, TRUE, NoneV, "none"), x)
    /\ (op = "str" /\ C19_Point(x)) =>
        /\ res.t = "str"
        /\ C20_Decimal(res.s, x.pos)
        /\ C19_Equal(SequencePoint(res, TRUE), x)

\* the text of a Range of several positions, all of two digits
C20_Witness ==
    /\ op = "str" /\ C19_Range(x)
    /\ x.start.pos >= 10 /\ x.start.pos < x.stop.pos
    /\ Len(res.s) = 5 /\ res.s[3] = ":"

\* from_index(i, length=n) or from_index(i, seq=s) with i >= 0 and n = len(s) >= 1
C21_Call ==
    /\ op = "SequenceRange.from_index"
    /\ IsInt(x) /\ x.v >= 0 /\ IsNone(y) /\ IsNone(kw.full_sequence)
    /\ \/ (IsInt(kw.length) /\ kw.length.v >= 1 /\ IsNone(kw.seq))
       \/ (IsNone(kw.length) /\ kw.seq.t = "str" /\ Len(kw.seq.s) >= 1)

\* the length the call asks for
C21_Length == IF IsInt(kw.length) THEN kw.length.v ELSE Len(kw.seq.s)

\* C21: from_index(i, length=n) is the 0-based equivalent of
\* SequenceRange(i + 1, length=n): for every i >= 0 and n >= 1 it returns the
\* valid Range with start.index = i, length n and slice [i, i + n) (likewise
\* from_index(i, seq=s) with n = len(s)).
C21_FromIndexAndLength ==
    C21_Call =>
        /\ C16_ValidRange(res)
        /\ res.start.index = x.v
        /\ Range_length(res) = C21_Length
        /\ res.slice = <<x.v, x.v + C21_Length>>
        /\ C19_Equal(res, SequenceRange(IntV(x.v + 1), NoneV, kw.seq, NoneV, kw.validate,
                                        kw.length, "none"))

\* the 0-based indexes at which kw.seq occurs in kw.full_sequence
C22_Occurrences ==
    {i \in 0..Len(kw.full_sequence.s) :
        /\ i + Len(kw.seq.s) <= Len(kw.full_sequence.s)
        /\ \A k \in 1..Len(kw.seq.s) : kw.full_sequence.s[i + k] = kw.seq.s[k]}

\* C22: from_sequence(full, s) returns the Range r of the leftmost occurrence
\* of s in full: r.start.index is the smallest i with full[i : i+len(s)] == s,
\* r.length == len(s), r.seq == s and full[r.slice] == s; when s does not
\* occur in full it raises IndexError.
C22_FromSequence ==
    op = "SequenceRange.from_sequence" =>
        IF C22_Occurrences = {} THEN res = IndexError
        ELSE /\ IsRange(res)
             /\ res.start.index \in C22_Occurrences
             /\ \A i \in C22_Occurrences : res.start.index <= i
             /\ Range_length(res) = Len(kw.seq.s)
             /\ res.seq = kw.seq
             /\ PySlice(kw.full_sequence.s, res.slice[1], res.slice[2]) = kw.seq.s

\* from_center_and_window(center, window, max_length) with center >= 1,
\* window >= 0 and max_length >= 1 or left out
C23_Call ==
    /\ op = "SequenceRange.from_center_and_window" /\ C19_PlainCall
    /\ IsInt(x) /\ x.v >= 1 /\ IsInt(y) /\ y.v >= 0
    /\ (kw.max_length = InfV \/ (IsInt(kw.max_length) /\ kw.max_length.v >= 1))

\* min(max_length, n)
C23_Clamp(n) ==
    IF IsInt(kw.max_length) /\ kw.max_length.v < n THEN kw.max_length.v ELSE n

\* C23: for center >= 1, window >= 0 and every upper bound max_length >= 1 (or
\* none), from_center_and_window produces the valid Range whose pos is
\* (max(1, center - window), min(max_length, center + window)).
C23_CenterAndWindow ==
    C23_Call =>
        /\ C16_ValidRange(res)
        /\ res.start.pos = (IF x.v - y.v < 1 THEN 1 ELSE x.v - y.v)
        /\ res.stop.pos = C23_Clamp(x.v + y.v)

\* SequenceRange(start, **kw) with stop left out and a scalar start: an int, a
\* decimal str or byte string, a Point
C24_Call ==
    /\ op = "SequenceRange" /\ IsNone(y)
    /\ IsInt(x) \/ (IsText(x) /\ AllDigits(x.s)) \/ IsPoint(x)

\* the position the scalar start denotes
C24_Start ==
    CASE IsInt(x) -> x.v
      [] IsPoint(x) -> x.pos
      [] OTHER -> DigitsVal(x.s)

\* the stop the priority order gives: length, then len(seq), then start
C24_Stop ==
    IF IsInt(kw.length) THEN C24_Start + kw.length.v - 1
    ELSE IF ~IsNone(kw.seq) THEN C24_Start + Len(kw.seq.s) - 1
    ELSE C24_Start

\* the arguments describe a valid Range: bounds in order from 1 on, and a
\* seq or full_sequence, when given, that fits them
C24_Consistent ==
    /\ 1 <= C24_Start /\ C24_Start <= C24_Stop
    /\ IsNone(kw.seq) \/ Len(kw.seq.s) \in {0, C24_Stop - C24_Start + 1}
    /\ (IsNone(kw.seq) \/ Len(kw.seq.s) = 0) =>
            (IsNone(kw.full_sequence) \/ Len(kw.full_sequence.s) = 0
                \/ C24_Stop <= Len(kw.full_sequence.s))

\* C24: with stop omitted and a scalar start, stop is resolved in priority
\* order: length=n gives stop.pos = start.pos + n - 1 (even when seq is given
\* too), else seq gives start.pos + len(seq) - 1, else stop.pos = start.pos;
\* so SequenceRange(1, 3), SequenceRange((1, 3)), SequenceRange(1, length=3)
\* and SequenceRange(1, seq="ABC") have the same bounds.
C24_StopResolution ==
    C24_Call =>
        /\ IsRange(res) =>
            /\ Loc_pos(res) = <<C24_Start, C24_Stop>>
            /\ Loc_pos(res) = Loc_pos(SequenceRange(IntV(C24_Start), IntV(C24_Stop),
                                                    NoneV, NoneV, FALSE, NoneV, "none"))
            /\ Loc_pos(res) = Loc_pos(SequenceRange(
                                TupleV(<<IntV(C24_Start), IntV(C24_Stop)>>), NoneV,
                                NoneV, NoneV, FALSE, NoneV, "none"))
            /\ (Truthy(kw.seq) => res.seq = kw.seq)
        /\ C24_Consistent => IsRange(res)

\* length=2 was given together with an empty seq, and the Range has two positions
C24_Witness ==
    /\ C24_Call /\ IsInt(kw.length) /\ ~IsNone(kw.seq)
    /\ Len(kw.seq.s) # kw.length.v
    /\ IsRange(res) /\ res.stop.pos = res.start.pos + 1

\* SequenceRange(r, **kw) of a valid Range r, stop left out
C25_CopyRange == op = "SequenceRange" /\ C16_ValidRange(x) /\ IsNone(y)

\* what a copy-construction returned
C25_Copies ==
    /\ (op = "SequencePoint" /\ C19_Point(x)) => C19_Equal(res, x)
    /\ (C25_CopyRange /\ IsNone(kw.seq) /\ IsNone(kw.full_sequence)) =>
            (C19_Equal(res, x) /\ res.seq = x.seq)
    /\ (C25_CopyRange /\ kw.seq.t = "str" /\ Len(kw.seq.s) = Range_length(x)) =>
            (IsRange(res) /\ Loc_pos(res) = Loc_pos(x) /\ res.seq = kw.seq)
    /\ (op = "SequenceRange" /\ ~IsNone(y)
            /\ (IsRange(x) \/ (x.t = "tuple" /\ Len(x.items) = 2))) =>
            res = ValueError

\* C25: copy-construction is idempotent and does not touch its source:
\* SequencePoint(p) == p and SequenceRange(r) == r with r.seq inherited when
\* neither seq nor full_sequence is given; SequenceRange(r, seq=s) has r's
\* bounds and seq s; the source is the same after the call as before; and
\* SequenceRange(r, stop) and SequenceRange((a, b), stop) raise ValueError.
C25_CopyConstruction ==
    /\ []C25_Copies
    /\ [][op' \in {"SequencePoint", "SequenceRange"} => x' = x]_vars

\* a Range carrying a seq was copied with another seq of the same length
C25_Witness ==
    /\ C25_CopyRange /\ ~IsNone(x.seq) /\ ~IsNone(kw.seq) /\ kw.seq # x.seq
    /\ IsRange(res) /\ res.seq = kw.seq /\ Loc_pos(res) = Loc_pos(x)

\* the position of a bound given as an int or a Point
C26_PosOf(v) == IF IsPoint(v) THEN v.pos ELSE v.v

\* C26: SequencePoint(r) for a Range r returns the Point equal to r.start when
\* r.length == 1 and raises TypeError for every Range whose length is not 1
\* (longer, of length 0, of negative length); SequenceRange(p) for a Point p is
\* the length-1 Range with start == stop == p, and SequenceRange(p, q) accepts
\* Points for either bound.
C26_Conversion ==
    /\ (op = "SequencePoint" /\ IsRange(x)) =>
            IF Range_length(x) = 1 THEN C19_Equal(res, x.start)
            ELSE res = TypeError
    /\ (op = "SequenceRange" /\ C19_Point(x) /\ IsNone(y) /\ C19_PlainCall) =>
            (IsRange(res) /\ C19_Equal(res.start, x) /\ C19_Equal(res.stop, x))
    /\ (op = "SequenceRange" /\ C19_PlainCall /\ (IsPoint(x) \/ IsPoint(y))
            /\ (IsPoint(x) \/ IsInt(x)) /\ (IsPoint(y) \/ IsInt(y))
            /\ 1 <= C26_PosOf(x) /\ C26_PosOf(x) <= C26_PosOf(y)) =>
            (IsRange(res) /\ Loc_pos(res) = <<C26_PosOf(x), C26_PosOf(y)>>)

\* C27: from_index accepts raw numbers only: SequencePoint.from_index(x) and
\* SequenceRange.from_index(x, y) raise a TypeError, and construct nothing,
\* whenever the index x (or the stop index y) is a Point or a Range.
C27_FromIndexOfLocation ==
    /\ (op = "SequencePoint.from_index" /\ IsLocation(x)) => res = TypeError
    /\ (op = "SequenceRange.from_index" /\ (IsLocation(x) \/ IsLocation(y))) =>
            res = TypeError

\* a Range that carries a seq
C28_WithSeq(r) == IsRange(r) /\ ~IsNone(r.seq)

\* an operand that cannot change the length: an int, a Point, a Range of length 1
C28_KeepsLength(o) == IsInt(o) \/ IsPoint(o) \/ (IsRange(o) /\ Range_length(o) = 1)

\* an operand that can: a Range, or a pair, of a length other than 1
C28_ChangesLength(o) ==
    \/ (IsRange(o) /\ Range_length(o) # 1)
    \/ (o \in IndexPairs /\ o.items[1].v # o.items[2].v)

\* the result of arithmetic between the Range r with seq and the operand o
C28_Result(r, o, out) ==
    /\ C28_KeepsLength(o) => (IsRange(out) /\ out.seq = r.seq)
    /\ C28_ChangesLength(o) => (IsRange(out) /\ IsNone(out.seq))

\* C28: arithmetic keeps the seq exactly when the length cannot change: for a
\* Range r with seq the results of r + o, o + r and r - o carry r.seq when o is
\* an int, a Point or a length-1 Range, and seq None when o is a Range or a
\* pair of another length.
C28_SeqThroughArithmetic ==
    /\ (op \in {"add", "sub"} /\ C28_WithSeq(x)) => C28_Result(x, y, res)
    /\ (op = "add" /\ C28_WithSeq(y)) => C28_Result(y, x, res)

\* a spelling of a number: an int, a decimal str, a decimal byte string
C29_Spelling(v) == IsInt(v) \/ (IsText(v) /\ AllDigits(v.s))

\* the number a spelling denotes
C29_Number(v) == IF IsInt(v) THEN v.v ELSE DigitsVal(v.s)

\* SequenceRange(s, t, ...) with spellings s of a and t of b, 1 <= a <= b
C29_Call ==
    /\ op = "SequenceRange" /\ C29_Spelling(x) /\ C29_Spelling(y)
    /\ 1 <= C29_Number(x) /\ C29_Number(x) <= C29_Number(y)
    /\ IsNone(kw.length) /\ IsNone(kw.full_sequence)

\* C29: the Range a constructor call denotes does not depend on how the
\* numbers are spelled: SequenceRange(s, t) has pos (a, b) for every spelling
\* of a and b as int, decimal str or decimal byte string; a numeric string
\* without ':' given as start is one scalar position whatever its length; and
\* SequenceRange(s, t, seq=q) == SequenceRange(a, seq=q) when len(q) == b - a + 1.
C29_Spellings ==
    /\ (C29_Call /\ IsNone(kw.seq)) =>
            (IsRange(res) /\ Loc_pos(res) = <<C29_Number(x), C29_Number(y)>>)
    /\ (op = "SequenceRange" /\ IsText(x) /\ AllDigits(x.s) /\ IsNone(y)
            /\ C19_PlainCall /\ 1 <= C29_Number(x)) =>
            (IsRange(res) /\ Loc_pos(res) = <<C29_Number(x), C29_Number(x)>>)
    /\ (C29_Call /\ kw.seq.t = "str"
            /\ Len(kw.seq.s) = C29_Number(y) - C29_Number(x) + 1) =>
            C19_Equal(res, SequenceRange(IntV(C29_Number(x)), NoneV, kw.seq, NoneV,
                                         kw.validate, NoneV, "none"))

\* a start of two characters was read as one position, before a stop spelled
\* as text
C29_Witness ==
    /\ C29_Call /\ IsText(x) /\ Len(x.s) = 2 /\ IsText(y)
    /\ IsRange(res) /\ res.start.pos = 12 /\ res.stop.pos = 13

\* an operand of the addition: a Point, a Range, a plain integer
C30_Operand(o) == IsLocation(o) \/ IsInt(o)

\* C30: addition is commutative under ==: x + y == y + x whenever at least one
\* operand is a Point or a Range and the other a Point, a Range (of any
\* length, with or without seq) or a plain integer.
C30_AddCommutes ==
    (op = "add" /\ C30_Operand(x) /\ C30_Operand(y)) =>
        C19_Equal(res, PyAdd(y, x))

====
